---- MODULE Spec2Model ----
(***************************************************************************)
(* A model of ext/keycoder.c, the order-preserving tuple codec of centidb. *)
(*                                                                         *)
(* Byte strings are sequences over 0..255.  A uint64_t is the sequence of  *)
(* its 8 bytes, most significant first, so that no value exceeds the range *)
(* of the model checker's integers; (uint8_t)(v >> 8*k) is v[8 - k].       *)
(* The codec's functions are operators computed as the C code computes     *)
(* them; the module's entry points are actions over the variables below.   *)
(***************************************************************************)
EXTENDS Integers, Sequences, FiniteSets, TLC

VARIABLES
    val,    \* the arguments of the latest encoder call
    wire,   \* the byte string it returned
    pval,   \* the arguments of the encoder call before it
    pwire,  \* and the byte string that one returned
    res,    \* the outcome of the latest decoder call on wire
    writer  \* a struct writer in a caller's hands, and the caller's account of it

vars == <<val, wire, pval, pwire, res, writer>>

-----------------------------------------------------------------------------
(* Bounds of the model.                                                    *)

\* Values within Spread of every boundary of the lead-byte table are drawn.
Spread == 1

\* Blobs of every length up to MaxBlobLen are drawn.
MaxBlobLen == 2

\* Input bytes per group of the byte stream (shift runs 1..7).
GroupLen == 7

\* Tuples of every length up to MaxTupleLen are drawn (and one longer, of
\* scalars), and lists of up to MaxListLen tuples.
MaxTupleLen == 2
MaxListLen == 3

\* Up to MaxCut bytes are cut off the end of an encoder's output.
MaxCut == 2

-----------------------------------------------------------------------------
(* Bytes and 64-bit words.                                                 *)

Byte == 0..255

Pow2(n) == 2 ^ n

\* (uint8_t) x
U8(x) == x % 256

Bit(x, i) == (x \div Pow2(i)) % 2

\* a | b on bytes
Or8(a, b) ==
    LET m(i) == IF Bit(a, i) = 1 \/ Bit(b, i) = 1 THEN Pow2(i) ELSE 0
    IN  m(0) + m(1) + m(2) + m(3) + m(4) + m(5) + m(6) + m(7)

\* a & b on bytes
And8(a, b) ==
    LET m(i) == IF Bit(a, i) = 1 /\ Bit(b, i) = 1 THEN Pow2(i) ELSE 0
    IN  m(0) + m(1) + m(2) + m(3) + m(4) + m(5) + m(6) + m(7)

\* The uint64_t of a natural number below 2^31.
U64FromNat(n) ==
    <<0, 0, 0, 0, (n \div 16777216) % 256, (n \div 65536) % 256,
      (n \div 256) % 256, n % 256>>

\* v < 2^(8k): the 8 - k high bytes are zero.
Fits(v, k) == \A i \in 1..(8 - k) : v[i] = 0

\* The value of the three low bytes.
Low24(v) == v[6] * 65536 + v[7] * 256 + v[8]

\* v <= n, for n < 2^24
LeqNat(v, n) == Fits(v, 3) /\ Low24(v) <= n

\* Unsigned byte-wise lexicographic order (memcmp, then length).
LexLess(a, b) ==
    \E i \in 1..Len(b) :
        /\ \A j \in 1..(i - 1) : j <= Len(a) /\ a[j] = b[j]
        /\ (i > Len(a) \/ a[i] < b[i])

\* a < b on uint64_t
U64Less(a, b) == LexLess(a, b)

\* 2^(8k) + d for 1 <= k <= 7, 0 <= d < 256
PowPlus(k, d) == [i \in 1..8 |-> IF i = 8 - k THEN 1 ELSE IF i = 8 THEN d ELSE 0]

\* 2^(8k) - d for 1 <= k <= 8, 1 <= d <= 256
PowMinus(k, d) ==
    [i \in 1..8 |-> IF i <= 8 - k THEN 0 ELSE IF i = 8 THEN 256 - d ELSE 255]

-----------------------------------------------------------------------------
(* struct reader, struct writer.                                           *)

reader_init(p, size) == [p |-> p, size |-> size, pos |-> 0]

\* reader_getc: [ok, ch, rdr]
reader_getc(rdr) ==
    IF rdr.pos < rdr.size
    THEN [ok |-> TRUE, ch |-> rdr.p[rdr.pos + 1], rdr |-> [rdr EXCEPT !.pos = @ + 1]]
    ELSE [ok |-> FALSE, ch |-> 0, rdr |-> rdr]

\* reader_ensure: FALSE raises ValueError("expected n bytes at position ...")
reader_ensure(rdr, n) == ~((rdr.size - rdr.pos) < n)

\* reader_getchar: the byte at pos; the caller advances with reader_skip
reader_getchar(rdr, k) == rdr.p[rdr.pos + k]

reader_skip(rdr, n) == [rdr EXCEPT !.pos = @ + n]

\* The buffer is a string object of `size` bytes, of which the first `pos`
\* have been written; s holds the written ones.
writer_init(initial) == [size |-> initial, pos |-> 0, s |-> <<>>]

writer_grow(wtr) ==
    LET cursize == wtr.size
        newsize == IF cursize * 2 > cursize + 512 THEN cursize + 512 ELSE cursize * 2
    IN  [wtr EXCEPT !.size = newsize]

writer_putchar(wtr, ch) == [wtr EXCEPT !.s = Append(@, ch), !.pos = @ + 1]

\* writer_putc with the growth before the store left out.
writer_putc_nogrow(wtr, o) == writer_putchar(wtr, U8(o))

writer_putc(wtr, o) ==
    writer_putchar(IF (1 + wtr.pos) = wtr.size THEN writer_grow(wtr) ELSE wtr, U8(o))

RECURSIVE writer_ensure(_, _)
writer_ensure(wtr, size) ==
    IF (wtr.size - (wtr.pos + 1)) < size
    THEN writer_ensure(writer_grow(wtr), size)
    ELSE wtr

RECURSIVE PutChars(_, _)
PutChars(wtr, bytes) ==
    IF bytes = <<>> THEN wtr
    ELSE PutChars(writer_putchar(wtr, Head(bytes)), Tail(bytes))

writer_puts(wtr, s) == PutChars(writer_ensure(wtr, Len(s)), s)

writer_fini(wtr) == SubSeq(wtr.s, 1, wtr.pos)

-----------------------------------------------------------------------------
(* The varint codec.                                                       *)

\* The number of bytes of v: the least k in 3..8 with v < 2^(8k).
SignificantBytes(v) == CHOOSE k \in 3..8 : Fits(v, k) /\ (k = 3 \/ ~Fits(v, k - 1))

\* VarintBytes with the `v -= 240` of the two-byte form left out.
VarintBytes_nobias(v) ==
    LET d2 == Low24(v) - 2288
        n  == SignificantBytes(v)
    IN  IF LeqNat(v, 240) THEN <<Low24(v)>>
        ELSE IF LeqNat(v, 2287)
        THEN <<U8(241 + U8(Low24(v) \div 256)), U8(Low24(v) % 256)>>
        ELSE IF LeqNat(v, 67823) THEN <<249, U8(d2 \div 256), U8(d2 % 256)>>
        ELSE <<247 + n>> \o SubSeq(v, 9 - n, 8)

\* The bytes write_int emits for v, after the kind tag: the lead byte by
\* range, then (uint8_t)(v >> 8k) from the highest byte down.
VarintBytes(v) ==
    LET d1 == Low24(v) - 240
        d2 == Low24(v) - 2288
        n  == SignificantBytes(v)
    IN  IF LeqNat(v, 240) THEN <<Low24(v)>>
        ELSE IF LeqNat(v, 2287) THEN <<U8(241 + U8(d1 \div 256)), U8(d1 % 256)>>
        ELSE IF LeqNat(v, 67823) THEN <<249, U8(d2 \div 256), U8(d2 % 256)>>
        ELSE <<247 + n>> \o SubSeq(v, 9 - n, 8)

\* The tail of write_int: the single-byte form goes through writer_putc,
\* the others through writer_ensure(n) and n calls of writer_putchar.
PutVarint(w0, bytes) ==
    IF Len(bytes) = 1 THEN writer_putc(w0, bytes[1])
    ELSE PutChars(writer_ensure(w0, Len(bytes)), bytes)

\* write_int(wtr, v, kind): the writer after the call (allocation never
\* fails in the model, so the call returns 1).
write_int(wtr, v, kind) ==
    PutVarint(IF kind # 0 THEN writer_putc(wtr, kind) ELSE wtr, VarintBytes(v))

\* py_pack_int(prefix, v): prefix || varint(v)
py_pack_int(prefix, v) ==
    writer_fini(write_int(writer_puts(writer_init(9), prefix), v, 0))

\* What the uninitialised local `uint64_t v` of read_plain_int holds when it
\* is read, by build: the register still holds ch, or the stack slot holds
\* zeroes, or it holds ones.
UninitModes == {"ch", "zero", "ones"}

UninitU64(mode, ch) ==
    IF mode = "ch" THEN U64FromNat(ch)
    ELSE IF mode = "zero" THEN U64FromNat(0)
    ELSE PowMinus(8, 1)

\* read_plain_int(rdr, &u64): [ok, u64, rdr, exc].  A failed reader_getc
\* returns 0 with no exception set; a failed reader_ensure sets the
\* "expected n bytes at position p" ValueError.  In the ch <= 240 branch
\* `*u64 = ch` is overwritten by the final `*u64 = v`, v never assigned.
read_plain_int(rdr, mode) ==
    LET g  == reader_getc(rdr)
        ch == g.ch
        r  == g.rdr
        n  == IF ch <= 240 THEN 0 ELSE IF ch <= 248 THEN 1 ELSE ch - 247
        c(k) == reader_getchar(r, k)
        v  == IF ch <= 240 THEN UninitU64(mode, ch)
              ELSE IF ch <= 248 THEN U64FromNat(240 + 256 * (ch - 241) + c(1))
              ELSE IF ch = 249 THEN U64FromNat(2288 + 256 * c(1) + c(2))
              ELSE [i \in 1..8 |-> IF i <= 8 - n THEN 0 ELSE c(i - (8 - n))]
    IN  IF ~g.ok
        THEN [ok |-> FALSE, u64 |-> U64FromNat(0), rdr |-> r, exc |-> "SystemError"]
        ELSE IF ~reader_ensure(r, n)
        THEN [ok |-> FALSE, u64 |-> U64FromNat(0), rdr |-> r, exc |-> "Truncated"]
        ELSE [ok |-> TRUE, u64 |-> v, rdr |-> reader_skip(r, n), exc |-> "none"]

-----------------------------------------------------------------------------
(* Kind tags (centidb.h).                                                  *)

KIND_SEP == 10
KIND_NULL == 15
KIND_NEG_TIME == 18
KIND_NEG_INTEGER == 20
KIND_BOOL == 25
KIND_INTEGER == 30
KIND_TIME == 35
KIND_BLOB == 40
KIND_TEXT == 50
KIND_UUID == 90

-----------------------------------------------------------------------------
(* The self-delimiting byte stream of blobs, text and uuids.               *)

\* The while loop of write_str: [wtr, shift, trailer] after the last byte.
\* trailer is a uint8_t, so `o << (7 - shift)` keeps its low 8 bits.
RECURSIVE write_str_loop(_, _, _, _)
write_str_loop(wtr, p, shift, trailer) ==
    IF p = <<>> THEN [wtr |-> wtr, shift |-> shift, trailer |-> trailer]
    ELSE
        LET o  == Head(p)
            w1 == writer_putc(wtr, Or8(Or8(128, trailer), o \div Pow2(shift)))
        IN  IF shift < 7
            THEN write_str_loop(w1, Tail(p), shift + 1, U8(o * Pow2(7 - shift)))
            ELSE write_str_loop(writer_putc(w1, Or8(128, o)), Tail(p), 1, 0)

\* The end of write_str, l being what the loop left: the trailer, and a
\* 0x00 after it unless the trailer is 0x00 itself.
write_str_end(l) ==
    IF l.shift > 1
    THEN IF l.trailer # 0 THEN writer_putc(writer_putc(l.wtr, l.trailer), 0)
         ELSE writer_putc(l.wtr, l.trailer)
    ELSE writer_putc(l.wtr, 0)

\* write_str(wtr, p, length, kind): the writer after the call.
write_str(wtr, p, kind) ==
    write_str_end(write_str_loop(IF kind # 0 THEN writer_putc(wtr, kind) ELSE wtr, p, 1, 0))

\* The while loop of read_str: [rdr, wtr] when it is left.
RECURSIVE read_str_loop(_, _, _, _)
read_str_loop(rdr, lb, shift, wtr) ==
    LET g == reader_getc(rdr)
    IN  IF ~g.ok \/ g.ch = 0 THEN [rdr |-> g.rdr, wtr |-> wtr]
        ELSE
            LET cb == g.ch
                ch == Or8(U8(lb * Pow2(shift)), And8(cb, 127) \div Pow2(7 - shift))
                w1 == writer_putc(wtr, ch)
            IN  IF shift < 7 THEN read_str_loop(g.rdr, cb, shift + 1, w1)
                ELSE LET g2 == reader_getc(g.rdr)
                     IN  IF ~g2.ok \/ g2.ch = 0 THEN [rdr |-> g2.rdr, wtr |-> w1]
                         ELSE read_str_loop(g2.rdr, g2.ch, 1, w1)

\* read_str after its first reader_getc, g: [ok, str, rdr].  ok = FALSE is
\* the NULL return, which sets no exception.
read_str_first(g) ==
    IF ~g.ok THEN [ok |-> FALSE, str |-> <<>>, rdr |-> g.rdr]
    ELSE IF g.ch = 0 THEN [ok |-> TRUE, str |-> <<>>, rdr |-> g.rdr]
    ELSE [ok |-> TRUE, rdr |-> read_str_loop(g.rdr, g.ch, 1, writer_init(20)).rdr,
          str |-> writer_fini(read_str_loop(g.rdr, g.ch, 1, writer_init(20)).wtr)]

\* read_str(rdr)
read_str(rdr) == read_str_first(reader_getc(rdr))

-----------------------------------------------------------------------------
(* Python values.  An int or long is its sign and its magnitude; the       *)
(* decoder's longs and the encoder's ints compare equal by value, as in    *)
(* Python 2, so both are "int" here.                                       *)

PyNone == [t |-> "NoneType"]
PyBool(b) == [t |-> "bool", b |-> b]
PyInt(neg, mag) == [t |-> "int", neg |-> neg, mag |-> mag]
PyStr(s) == [t |-> "str", s |-> s]
PyTuple(items) == [t |-> "tuple", items |-> items]
PyList(items) == [t |-> "list", items |-> items]
\* A datetime: timegm() of its wall clock, its microsecond, and the seconds
\* of its utcoffset().
PyDateTime(secs, us, utcoffset) ==
    [t |-> "datetime", secs |-> secs, us |-> us, utcoffset |-> utcoffset]

\* PyLong_FromUnsignedLongLong(u64), then PyNumber_Negative if negate.
PyLongFrom(u64, negate) == PyInt(negate /\ u64 # U64FromNat(0), u64)

\* What a call into the module gives its Python caller.
Return(v) == [kind |-> "value", v |-> v]
\* NULL: the exception set, or SystemError when none was set.
Raise(exc) == [kind |-> "raise", exc |-> exc]
\* assert(0) ends the process.
Abort == [kind |-> "abort"]

tuplize(arg) == IF arg.t = "tuple" THEN arg ELSE PyTuple(<<arg>>)

-----------------------------------------------------------------------------
(* The timestamp subcodec.                                                 *)

UTCOFFSET_SHIFT == 64
UTCOFFSET_DIV == 900

\* C integer division truncates towards zero.
CDiv(a, b) == IF a >= 0 THEN a \div b ELSE -((-a) \div b)

\* get_utcoffset_secs(dt), for a datetime with a tzinfo: the offset already
\* divided by 15 * 60.  (Datetimes without a tzinfo, which take the host's
\* offset, are not drawn.)
get_utcoffset_secs(dt) == CDiv(dt.utcoffset, 15 * 60)

\* write_time(wtr, dt): [ret, wtr, exc].  ret = -1 is its error return;
\* `ts <<= 7` on a negative ts is taken as the arithmetic shift every target
\* performs.
write_time(wtr, dt) ==
    LET offset_secs == get_utcoffset_secs(dt)
        offset_bits == UTCOFFSET_SHIFT + CDiv(offset_secs, UTCOFFSET_DIV)
        ms == dt.secs * 1000 + dt.us \div 1000
        ts == ms * 128 + offset_bits
    IN  IF offset_secs = -1 THEN [ret |-> -1, wtr |-> wtr, exc |-> "none"]
        ELSE [ret |-> 1, exc |-> "none",
              wtr |-> write_int(wtr, U64FromNat(IF ts < 0 THEN -ts ELSE ts),
                                IF ts < 0 THEN KIND_NEG_TIME ELSE KIND_TIME)]

-----------------------------------------------------------------------------
(* The element, tuple and batch encoders.                                  *)

\* c_encode_value(wtr, arg): [ret, wtr, exc]; ret # 0 is success.
c_encode_value(wtr, arg) ==
    IF arg.t = "NoneType" THEN
        [ret |-> 1, wtr |-> writer_putc(wtr, KIND_NULL), exc |-> "none"]
    ELSE IF arg.t = "int" THEN
        [ret |-> 1, exc |-> "none",
         wtr |-> write_int(wtr, arg.mag,
                           IF arg.neg THEN KIND_NEG_INTEGER ELSE KIND_INTEGER)]
    ELSE IF arg.t = "str" THEN
        [ret |-> 1, wtr |-> write_str(wtr, arg.s, KIND_BLOB), exc |-> "none"]
    ELSE IF arg.t = "bool" THEN
        [ret |-> 1, exc |-> "none",
         wtr |-> writer_putc(writer_putc(wtr, KIND_BOOL), IF arg.b THEN 1 ELSE 0)]
    ELSE IF arg.t = "datetime" THEN write_time(wtr, arg)
    ELSE [ret |-> 0, wtr |-> wtr, exc |-> "TypeError"]

\* c_encode_key(wtr, tup), from item i on
RECURSIVE c_encode_key_from(_, _, _)

\* The loop test `ret &&` after item i gave r.
c_encode_key_next(r, items, i) ==
    IF r.ret = 0 THEN r ELSE c_encode_key_from(r.wtr, items, i + 1)

c_encode_key_from(wtr, items, i) ==
    IF i > Len(items) THEN [ret |-> 1, wtr |-> wtr, exc |-> "none"]
    ELSE c_encode_key_next(c_encode_value(wtr, items[i]), items, i)

c_encode_key(wtr, tup) == c_encode_key_from(wtr, tup.items, 1)

\* One element of a list, or a value that is no list: a tuple goes to
\* c_encode_key, anything else to c_encode_value.
EncodeElem(wtr, elem) ==
    IF elem.t # "tuple" THEN c_encode_value(wtr, elem) ELSE c_encode_key(wtr, elem)

\* The for loop of packs over a list, from element i on (0-based as in C).
RECURSIVE packs_list_from(_, _, _)

\* The loop test `ret &&` after element i gave r.
packs_list_next(r, items, i) ==
    IF r.ret = 0 THEN r ELSE packs_list_from(r.wtr, items, i + 1)

\* packs_list_from with the `if(i)` before the separator left out.
packs_list_from_sep_first(wtr, items, i) ==
    IF ~(i < Len(items)) THEN [ret |-> 1, wtr |-> wtr, exc |-> "none"]
    ELSE packs_list_next(EncodeElem(writer_putc(wtr, KIND_SEP), items[i + 1]), items, i)

packs_list_from(wtr, items, i) ==
    IF ~(i < Len(items)) THEN [ret |-> 1, wtr |-> wtr, exc |-> "none"]
    ELSE packs_list_next(
             EncodeElem(IF i # 0 THEN writer_putc(wtr, KIND_SEP) ELSE wtr, items[i + 1]),
             items, i)

\* The end of packs: writer_fini if ret, else NULL.
packs_result(r) ==
    IF r.ret # 0 THEN Return(PyStr(writer_fini(r.wtr))) ELSE Raise(r.exc)

\* packs after the prefix is written.
packs_body(w0, tups) ==
    IF tups.t # "list" THEN EncodeElem(w0, tups) ELSE packs_list_from(w0, tups.items, 0)

\* packs(prefix, tups), also named pack
packs(prefix, tups) ==
    packs_result(packs_body(writer_puts(writer_init(20), prefix), tups))

-----------------------------------------------------------------------------
(* The decoders.                                                           *)

\* The build: what an uninitialised uint64_t holds, and whether assert() is
\* compiled out (NDEBUG).
Builds == [uninit : UninitModes, ndebug : BOOLEAN]

\* read_time(rdr, kind) is `assert(0);` and no more.  With assertions on, the
\* process aborts.  With NDEBUG the function returns no value; unpack leaves
\* arg NULL and returns NULL, no exception set.
read_time(rdr, kind, build) ==
    IF build.ndebug THEN [ok |-> FALSE, abort |-> FALSE] ELSE [ok |-> FALSE, abort |-> TRUE]

\* PyUnicode_DecodeUTF8(tmp, "strict") of ASCII bytes; a byte >= 0x80 is
\* taken to fail (multi-byte text is not drawn).
PyUnicode_DecodeUTF8(str) ==
    IF \A i \in 1..Len(str) : str[i] < 128
    THEN [ok |-> TRUE, v |-> [t |-> "unicode", utf8 |-> str]]
    ELSE [ok |-> FALSE, v |-> PyNone]

\* uuid.UUID(None, tmp): ValueError unless tmp has 16 bytes.
UUID_Type(str) ==
    IF Len(str) = 16
    THEN [ok |-> TRUE, v |-> [t |-> "UUID", bytes |-> str]]
    ELSE [ok |-> FALSE, v |-> PyNone]

\* The switch of unpack on the kind byte ch, the reader r standing after it;
\* i is what read_plain_int(r) gives and t what read_str(r) gives, for the
\* cases that call them: [kind, arg, rdr, exc], kind "ok" (arg is the
\* element), "sep", "raise" (NULL is returned) or "abort".
unpack_switch(r, ch, build, i, t) ==
    LET u == IF ch = KIND_TEXT THEN PyUnicode_DecodeUTF8(t.str) ELSE UUID_Type(t.str)
        Elem(rd, arg) == [kind |-> "ok", arg |-> arg, rdr |-> rd, exc |-> "none"]
        Fail(rd, exc) == [kind |-> "raise", arg |-> PyNone, rdr |-> rd, exc |-> exc]
    IN  IF ch = KIND_NULL THEN Elem(r, PyNone)
        ELSE IF ch \in {KIND_INTEGER, KIND_NEG_INTEGER, KIND_BOOL} THEN
            IF ~i.ok THEN Fail(i.rdr, i.exc)
            ELSE IF ch = KIND_BOOL THEN Elem(i.rdr, PyBool(i.u64 # U64FromNat(0)))
            ELSE Elem(i.rdr, PyLongFrom(i.u64, ch = KIND_NEG_INTEGER))
        ELSE IF ch \in {KIND_BLOB, KIND_TEXT, KIND_UUID} THEN
            IF ~t.ok THEN Fail(t.rdr, "SystemError")
            ELSE IF ch = KIND_BLOB THEN Elem(t.rdr, PyStr(t.str))
            ELSE IF u.ok THEN Elem(t.rdr, u.v)
            ELSE Fail(t.rdr, IF ch = KIND_TEXT THEN "UnicodeDecodeError" ELSE "ValueError")
        ELSE IF ch \in {KIND_NEG_TIME, KIND_TIME} THEN
            IF read_time(r, ch, build).abort
            THEN [kind |-> "abort", arg |-> PyNone, rdr |-> r, exc |-> "none"]
            ELSE Fail(r, "SystemError")
        ELSE IF ch = KIND_SEP THEN [kind |-> "sep", arg |-> PyNone, rdr |-> r, exc |-> "none"]
        ELSE Fail(r, "BadKind")

\* One turn of the while loop of unpack after reader_getc gave g.
unpack_case(g, build) ==
    unpack_switch(g.rdr, g.ch, build, read_plain_int(g.rdr, build.uninit), read_str(g.rdr))

\* unpack(rdr), with the elements read so far: [kind, items, rdr, exc],
\* kind "ok" (the tuple), "raise" (NULL) or "abort".
RECURSIVE unpack_loop(_, _, _)

\* What unpack does with the outcome c of one turn.
unpack_step(c, items, build) ==
    IF c.kind = "ok" THEN unpack_loop(c.rdr, Append(items, c.arg), build)
    ELSE IF c.kind = "sep"
    THEN [kind |-> "ok", items |-> items, rdr |-> c.rdr, exc |-> "none"]
    ELSE [kind |-> c.kind, items |-> <<>>, rdr |-> c.rdr, exc |-> c.exc]

unpack_loop(rdr, items, build) ==
    IF ~(rdr.pos < rdr.size)
    THEN [kind |-> "ok", items |-> items, rdr |-> rdr, exc |-> "none"]
    ELSE unpack_step(unpack_case(reader_getc(rdr), build), items, build)

unpack(rdr, build) == unpack_loop(rdr, <<>>, build)

\* memcmp(prefix, s, prefix_len) == 0, given s_len >= prefix_len
SamePrefix(prefix, s) == \A i \in 1..Len(prefix) : s[i] = prefix[i]

\* What py_unpack returns when unpack gave r.
py_unpack_result(r) ==
    IF r.kind = "ok" THEN Return(PyTuple(r.items))
    ELSE IF r.kind = "abort" THEN Abort
    ELSE Raise(r.exc)

\* py_unpack(prefix, s)
py_unpack(prefix, s, build) ==
    IF Len(s) < Len(prefix) THEN Raise("ShortInput")
    ELSE IF ~SamePrefix(prefix, s) THEN Return(PyNone)
    ELSE py_unpack_result(unpack(reader_skip(reader_init(s, Len(s)), Len(prefix)), build))

\* The while loop of unpacks, with the tuples read so far.
RECURSIVE unpacks_loop(_, _, _)

\* What unpacks does with the outcome r of one unpack.
unpacks_step(r, tups, build) ==
    IF r.kind = "ok" THEN unpacks_loop(r.rdr, Append(tups, PyTuple(r.items)), build)
    ELSE IF r.kind = "abort" THEN Abort
    ELSE Raise(r.exc)

unpacks_loop(rdr, tups, build) ==
    IF ~(rdr.pos < rdr.size) THEN Return(PyList(tups))
    ELSE unpacks_step(unpack(rdr, build), tups, build)

\* unpacks(prefix, s)
unpacks(prefix, s, build) ==
    IF Len(s) < Len(prefix) THEN Raise("ShortInput")
    ELSE IF ~SamePrefix(prefix, s) THEN Return(PyNone)
    ELSE unpacks_loop(reader_skip(reader_init(s, Len(s)), Len(prefix)), <<>>, build)

-----------------------------------------------------------------------------
(* The offset table: py_decode_offsets.                                    *)

\* a + b on uint64_t: the carry into byte i, and the sum.
RECURSIVE Carry64(_, _, _)
Carry64(a, b, i) ==
    IF i > 8 THEN 0 ELSE (a[i] + b[i] + Carry64(a, b, i + 1)) \div 256

Add64(a, b) == [i \in 1..8 |-> (a[i] + b[i] + Carry64(a, b, i + 1)) % 256]

\* -a on uint64_t
Neg64(a) == Add64([i \in 1..8 |-> 255 - a[i]], U64FromNat(1))

\* PyInt_FromLong((long) pos): the 64 bits read as a signed long.
PyInt_FromLong(pos) ==
    IF pos[1] >= 128 THEN PyInt(TRUE, Neg64(pos)) ELSE PyInt(FALSE, pos)

\* (int) count: the low 32 bits read as a signed int.
IntCast(v) ==
    IF v[5] >= 128
    THEN -((255 - v[5]) * 16777216 + (255 - v[6]) * 65536 + (255 - v[7]) * 256
           + (255 - v[8]) + 1)
    ELSE v[5] * 16777216 + v[6] * 65536 + v[7] * 256 + v[8]

\* What a store past the end of the list's item array does: it goes
\* unnoticed, or the process dies of it.
OobStores == {"silent", "crash"}

\* The for loop of py_decode_offsets, i deltas read: [kind, items, rdr, exc,
\* oob].  size is the length the list was allocated with; oob tells whether
\* PyList_SET_ITEM stored at an index >= size.
RECURSIVE decode_offsets_loop(_, _, _, _, _, _, _, _)

\* One turn of the loop, o being what read_plain_int gave for the delta.
decode_offsets_step(o, count, size, i, pos, items, oob, mode) ==
    IF ~o.ok
    THEN [kind |-> "raise", items |-> items, rdr |-> o.rdr, exc |-> o.exc, oob |-> oob]
    ELSE decode_offsets_loop(o.rdr, count, size, i + 1, Add64(pos, o.u64),
                             Append(items, PyInt_FromLong(Add64(pos, o.u64))),
                             oob \/ (1 + i >= size), mode)

decode_offsets_loop(rdr, count, size, i, pos, items, oob, mode) ==
    IF ~U64Less(U64FromNat(i), count)
    THEN [kind |-> "ok", items |-> items, rdr |-> rdr, exc |-> "none", oob |-> oob]
    ELSE decode_offsets_step(read_plain_int(rdr, mode), count, size, i, pos, items,
                             oob, mode)

\* The return of py_decode_offsets, l being what the loop left.
decode_offsets_result(l, store) ==
    IF l.oob /\ store = "crash" THEN Abort
    ELSE IF l.kind = "raise" THEN Raise(l.exc)
    ELSE Return(PyTuple(<<PyList(l.items), PyInt(FALSE, U64FromNat(l.rdr.pos))>>))

\* py_decode_offsets after the count was read into c: PyList_New(1 + (int)
\* count) fails on a negative size; item 0 is stored before the loop.
decode_offsets_body(c, build, store) ==
    IF ~c.ok THEN Raise(c.exc)
    ELSE IF 1 + IntCast(c.u64) < 0 THEN Raise("SystemError")
    ELSE decode_offsets_result(
             decode_offsets_loop(c.rdr, c.u64, 1 + IntCast(c.u64), 0, U64FromNat(0),
                                 <<PyInt_FromLong(U64FromNat(0))>>,
                                 0 >= 1 + IntCast(c.u64), build.uninit),
             store)

\* decode_offsets(s)
py_decode_offsets(s, build, store) ==
    decode_offsets_body(read_plain_int(reader_init(s, Len(s)), build.uninit), build, store)

-----------------------------------------------------------------------------
(* Inputs.                                                                 *)

\* Values around every boundary of the lead-byte table and every 2^(8k).
TestU64 ==
    {U64FromNat(n + d) : n \in {0, 240, 2287, 67823}, d \in 0..(Spread + 1)}
    \cup {U64FromNat(n - d) : n \in {240, 2287, 67823}, d \in 1..Spread}
    \cup {PowPlus(k, d) : k \in 1..7, d \in 0..Spread}
    \cup {PowMinus(k, d) : k \in 1..8, d \in 1..Spread}

Prefixes == {<<>>, <<120>>}

\* Byte values of the blobs drawn: low bits clear (0x00, 0x60), bit 1 set
\* (0x02, 0x62), bit 0 set, bit 7 set.
BlobBytes == {0, 1, 2, 96, 98, 128, 255}

RECURSIVE SeqsUpTo(_, _)
SeqsUpTo(S, n) ==
    IF n = 0 THEN {<<>>}
    ELSE LET shorter == SeqsUpTo(S, n - 1)
         IN  shorter \cup {Append(q, x) : q \in {r \in shorter : Len(r) = n - 1}, x \in S}

\* Every blob over BlobBytes of length <= MaxBlobLen, and the runs of one
\* byte whose lengths surround the 7-byte group of the stream.
TestBlobs ==
    SeqsUpTo(BlobBytes, MaxBlobLen)
    \cup {[i \in 1..n |-> x] : n \in (GroupLen - 1)..(GroupLen + MaxBlobLen), x \in BlobBytes}

\* Prefixes a decoder is called with: those of the encoder, another one of
\* the same length, and a longer one.
DecodePrefixes == Prefixes \cup {<<121>>, <<120, 121>>}

\* Signed 64-bit integers: magnitudes around every boundary, below 2^63.
\* (LONG_MIN, whose negation in c_encode_value overflows, is not drawn.)
SignedInts ==
    {PyInt(FALSE, m) : m \in {v \in TestU64 : v[1] < 128}}
    \cup {PyInt(TRUE, m) : m \in {v \in TestU64 : v[1] < 128 /\ v # U64FromNat(0)}}

\* a < b on signed integers
IntLess(a, b) ==
    IF a.neg /\ b.neg THEN U64Less(b.mag, a.mag)
    ELSE IF a.neg THEN TRUE
    ELSE IF b.neg THEN FALSE
    ELSE U64Less(a.mag, b.mag)

\* Null, Bool and Int elements.
ScalarElems ==
    {PyNone, PyBool(TRUE), PyBool(FALSE),
     PyInt(FALSE, U64FromNat(1)), PyInt(FALSE, U64FromNat(241)),
     PyInt(TRUE, U64FromNat(1)), PyInt(TRUE, U64FromNat(300))}

BlobElems == {PyStr(<<>>), PyStr(<<1>>), PyStr(<<0>>)}

\* Datetimes: after, at and before the epoch, whole milliseconds, offsets of
\* +1:00, 0:00, -0:45 and -0:15.
TimeElems ==
    {PyDateTime(1, 5000, 3600), PyDateTime(0, 0, 0),
     PyDateTime(-1, 0, -2700), PyDateTime(0, 0, -900)}

KeyElems == ScalarElems \cup BlobElems \cup TimeElems

\* The tuples packed inside lists.
ListTuples ==
    {PyTuple(<<>>), PyTuple(<<PyNone>>), PyTuple(<<PyInt(FALSE, U64FromNat(241))>>)}

\* What pack is called with: an element, a tuple, or a list of tuples.
TestValues ==
    KeyElems
    \cup {PyTuple(q) : q \in SeqsUpTo(KeyElems, MaxTupleLen)}
    \cup {PyTuple(q) : q \in {r \in SeqsUpTo({PyNone, PyBool(TRUE), PyInt(TRUE, U64FromNat(1))},
                                            MaxTupleLen + 1) : Len(r) = MaxTupleLen + 1}}
    \cup {PyList(q) : q \in SeqsUpTo(ListTuples, MaxListLen)}

NoVal == [op |-> "none"]
NoRes == [op |-> "none"]
\* No writer is in a caller's hands.
NoWriter == [op |-> "none"]

\* The part of the output after the caller's prefix.
Body(v, w) == SubSeq(w, Len(v.prefix) + 1, Len(w))

-----------------------------------------------------------------------------
(* The varint entry points.                                                *)

Init ==
    /\ val = NoVal
    /\ wire = <<>>
    /\ pval = NoVal
    /\ pwire = <<>>
    /\ res = NoRes
    /\ writer = NoWriter

\* A behaviour encodes at most two values, the pair an ordering compares.
PyPackInt ==
    \E prefix \in Prefixes, v \in TestU64 :
        /\ pval = NoVal
        /\ val' = [op |-> "pack_int", prefix |-> prefix, v |-> v]
        /\ wire' = py_pack_int(prefix, v)
        /\ pval' = val
        /\ pwire' = wire
        /\ res' = NoRes
        /\ UNCHANGED writer

\* read_plain_int on the output of pack_int, from the end of the prefix.
ReadPlainInt ==
    /\ val.op = "pack_int"
    /\ res = NoRes
    /\ \E mode \in UninitModes :
           \E r \in {read_plain_int(reader_skip(reader_init(wire, Len(wire)),
                                                Len(val.prefix)), mode)} :
               res' = [op |-> "read_plain_int", ok |-> r.ok, u64 |-> r.u64,
                       pos |-> r.rdr.pos, exc |-> r.exc]
    /\ UNCHANGED <<val, wire, pval, pwire, writer>>

NextVarint == PyPackInt \/ ReadPlainInt

SpecVarint == Init /\ [][NextVarint]_vars

-----------------------------------------------------------------------------
(* C1: the bytes write_int(v, 0) emits, fed to read_plain_int, give back   *)
(* v with success and are consumed exactly, for every v, the single-byte   *)
(* range 0..240 included.                                                  *)
VarintRoundTrip ==
    (val.op = "pack_int" /\ res.op = "read_plain_int") =>
        (res.ok /\ res.u64 = val.v /\ res.pos = Len(wire))

(* C2: a < b exactly when the bytes write_int emits for a are byte-wise    *)
(* smaller than those for b, and a = b exactly when the bytes are equal.   *)
VarintOrder ==
    (val.op = "pack_int" /\ pval.op = "pack_int") =>
        /\ U64Less(pval.v, val.v) <=> LexLess(Body(pval, pwire), Body(val, wire))
        /\ (pval.v = val.v) <=> (Body(pval, pwire) = Body(val, wire))

\* 2287 then 2288 have been encoded: the pair straddles the 0xf8/0xf9 lead.
VarintOrderWitness ==
    /\ val.op = "pack_int" /\ pval.op = "pack_int"
    /\ pval.v = U64FromNat(2287) /\ val.v = U64FromNat(2288)
    /\ Body(pval, pwire) = <<248, 255>> /\ Body(val, wire) = <<249, 0, 0>>

-----------------------------------------------------------------------------
(* The byte-stream entry points: c_encode_value on a str, and the          *)
(* KIND_BLOB case of unpack.                                               *)

\* A behaviour encodes at most two values, the pair an ordering compares.
WriteStr ==
    \E b \in TestBlobs :
        /\ pval = NoVal
        /\ val' = [op |-> "write_str", b |-> b]
        /\ wire' = writer_fini(write_str(writer_init(20), b, KIND_BLOB))
        /\ pval' = val
        /\ pwire' = wire
        /\ res' = NoRes
        /\ UNCHANGED writer

\* read_str on the payload, the reader standing after the kind tag.
ReadStr ==
    /\ val.op = "write_str"
    /\ res = NoRes
    /\ \E r \in {read_str(reader_skip(reader_init(wire, Len(wire)), 1))} :
           res' = [op |-> "read_str", ok |-> r.ok, str |-> r.str, pos |-> r.rdr.pos]
    /\ UNCHANGED <<val, wire, pval, pwire, writer>>

NextStr == WriteStr \/ ReadStr

SpecStr == Init /\ [][NextStr]_vars

\* The payload: the output after its kind tag.
Payload(w) == Tail(w)

(* C3: read_str on the payload write_str emits for b returns exactly b and *)
(* leaves the reader just after the terminator, for every b, those whose   *)
(* last byte has its low bits zero included.                               *)
BlobRoundTrip ==
    (val.op = "write_str" /\ res.op = "read_str") =>
        (res.ok /\ res.str = val.b /\ res.pos = Len(wire))

(* C4: the payloads of x and y compare byte-wise as x and y do; different  *)
(* inputs never give the same payload, and a proper prefix gives a         *)
(* strictly smaller payload.                                               *)
BlobOrder ==
    (val.op = "write_str" /\ pval.op = "write_str") =>
        /\ LexLess(pval.b, val.b) <=> LexLess(Payload(pwire), Payload(wire))
        /\ (pval.b = val.b) <=> (Payload(pwire) = Payload(wire))

(* C12: the payload write_str emits for b holds exactly one 0x00 byte, the *)
(* last byte of the payload, and every byte before it has bit 7 set.       *)
BlobTerminated ==
    (val.op = "write_str") =>
        /\ Len(Payload(wire)) >= 1
        /\ Payload(wire)[Len(Payload(wire))] = 0
        /\ \A i \in 1..(Len(Payload(wire)) - 1) : Payload(wire)[i] >= 128

\* The part of it about the zero byte alone: one 0x00, and it is last.
BlobOneZero ==
    (val.op = "write_str") =>
        /\ Len(Payload(wire)) >= 1
        /\ \A i \in 1..Len(Payload(wire)) :
               (Payload(wire)[i] = 0) <=> (i = Len(Payload(wire)))

-----------------------------------------------------------------------------
(* Integer elements: pack("", v) of an int.                                *)

PackInteger ==
    \E v \in SignedInts :
        \E r \in {packs(<<>>, v)} :
            /\ r.kind = "value"
            /\ val' = [op |-> "pack", prefix |-> <<>>, value |-> v, cut |-> 0]
            /\ wire' = r.v.s
            /\ pval' = val
            /\ pwire' = wire
            /\ res' = NoRes
            /\ UNCHANGED writer

NextInt == PackInteger

SpecInt == Init /\ [][NextInt]_vars

(* C5: for signed integers a < b < 0 the encoding of a (NEG_INTEGER tag and *)
(* varint body) is byte-wise strictly smaller than that of b.              *)
NegIntOrder ==
    (/\ val.op = "pack" /\ pval.op = "pack"
     /\ pval.value.neg /\ val.value.neg
     /\ IntLess(pval.value, val.value)) => LexLess(pwire, wire)

-----------------------------------------------------------------------------
(* pack, unpack and unpacks.                                               *)

\* The arguments of the pack call are drawn at the start.
InitKey ==
    /\ val \in {[op |-> "pending", prefix |-> prefix, value |-> value, cut |-> 0] :
                    prefix \in Prefixes, value \in TestValues}
    /\ wire = <<>>
    /\ pval = NoVal
    /\ pwire = <<>>
    /\ res = NoRes
    /\ writer = NoWriter

Pack ==
    /\ val.op = "pending"
    /\ \E r \in {packs(val.prefix, val.value)} :
           /\ r.kind = "value"
           /\ wire' = r.v.s
    /\ val' = [val EXCEPT !.op = "pack"]
    /\ res' = NoRes
    /\ UNCHANGED <<pval, pwire, writer>>

\* The caller hands on the output with its last byte missing.
Truncate ==
    /\ val.op = "pack"
    /\ val.cut < MaxCut
    /\ Len(wire) > 0
    /\ val' = [val EXCEPT !.cut = @ + 1]
    /\ wire' = SubSeq(wire, 1, Len(wire) - 1)
    /\ res' = NoRes
    /\ UNCHANGED <<pval, pwire, writer>>

PyUnpack ==
    /\ val.op = "pack"
    /\ \E prefix \in DecodePrefixes, build \in Builds :
           res' = [op |-> "unpack", prefix |-> prefix, ret |-> py_unpack(prefix, wire, build)]
    /\ UNCHANGED <<val, wire, pval, pwire, writer>>

Unpacks ==
    /\ val.op = "pack"
    /\ \E prefix \in DecodePrefixes, build \in Builds :
           res' = [op |-> "unpacks", prefix |-> prefix, ret |-> unpacks(prefix, wire, build)]
    /\ UNCHANGED <<val, wire, pval, pwire, writer>>

NextKey == Pack \/ Truncate \/ PyUnpack \/ Unpacks

SpecKey == InitKey /\ [][NextKey]_vars

\* s begins with p
BeginsWith(s, p) == Len(p) <= Len(s) /\ SubSeq(s, 1, Len(p)) = p

\* A Null, Bool or Int element, or a tuple of such elements.
IsScalarValue(v) ==
    \/ v \in ScalarElems
    \/ v.t = "tuple" /\ \A i \in 1..Len(v.items) : v.items[i] \in ScalarElems

\* The decoder was called on the encoder's whole output with its prefix.
Decoded(op) == val.op = "pack" /\ val.cut = 0 /\ res.op = op /\ res.prefix = val.prefix

(* C6: pack(p, value) begins with p, and unpack(p, pack(p, value)) returns *)
(* tuplize(value), for a Null, Bool or Int element or a tuple of them.     *)
PrefixRoundTrip ==
    (val.op = "pack" /\ val.cut = 0 /\ IsScalarValue(val.value)) =>
        /\ BeginsWith(wire, val.prefix)
        /\ Decoded("unpack") => res.ret = Return(tuplize(val.value))

(* C7: unpacks(p, pack(p, L)) returns the list of the tuples of L, in      *)
(* order, for every list L of tuples, empty tuples included.               *)
BatchRoundTrip ==
    (Decoded("unpacks") /\ val.value.t = "list") => res.ret = Return(val.value)

(* C8: unpack(p, s) and unpacks(p, s) return NoMatch, and raise nothing,   *)
(* whenever s does not begin with p, s shorter than p included; they never *)
(* return NoMatch when s begins with p.                                    *)
NoMatch ==
    (res.op \in {"unpack", "unpacks"}) =>
        (res.ret = Return(PyNone) <=> ~BeginsWith(wire, res.prefix))

\* The lengths of pack(p, t) at which an element of the tuple t ends.
ElementEnds(prefix, t) ==
    {Len(packs(prefix, PyTuple(SubSeq(t.items, 1, k))).v.s) : k \in 0..Len(t.items)}

(* C9: when the input ends inside a varint or before the terminator of a   *)
(* blob, unpack and unpacks fail with the truncated-input error and return *)
(* no partial result.                                                      *)
TruncatedIsError ==
    (/\ val.op = "pack" /\ val.cut > 0
     /\ res.op \in {"unpack", "unpacks"} /\ res.prefix = val.prefix
     /\ val.value.t = "tuple"
     /\ \A i \in 1..Len(val.value.items) : val.value.items[i] \in ScalarElems \cup BlobElems
     /\ Len(wire) >= Len(val.prefix)
     /\ Len(wire) \notin ElementEnds(val.prefix, val.value))
    => res.ret = Raise("Truncated")

(* C10: unpack(p, pack(p, (t,))) returns the one-element tuple holding t,  *)
(* for every Time value t and prefix p.                                    *)
TimeRoundTrip ==
    (Decoded("unpack") /\ val.value.t = "tuple" /\ Len(val.value.items) = 1
     /\ val.value.items[1] \in TimeElems) => res.ret = Return(val.value)

-----------------------------------------------------------------------------
(* The batch encoder alone: pack on every value drawn.                     *)

NextPack == Pack

SpecPack == InitKey /\ [][NextPack]_vars

\* The encoding of one tuple: what pack gives for it with no prefix.
TupleBytes(t) == packs(<<>>, t).v.s

\* tuple_i || SEP || ... || tuple_{n-1}, from the i-th tuple of the list on.
RECURSIVE JoinTuples(_, _)
JoinTuples(items, i) ==
    IF i > Len(items) THEN <<>>
    ELSE IF i = Len(items) THEN TupleBytes(items[i])
    ELSE TupleBytes(items[i]) \o <<KIND_SEP>> \o JoinTuples(items, i + 1)

(* C13: pack(p, L) of a list of tuples is p, then the tuples' encodings in *)
(* order with one SEP between each two and none before the first or after  *)
(* the last; pack(p, t) of one tuple is p and its encoding, with no SEP;   *)
(* pack(p, x) of one element that is no tuple and no list is pack(p, (x,)).*)
BatchLayout ==
    (val.op = "pack" /\ val.cut = 0) =>
        IF val.value.t = "list"
        THEN wire = val.prefix \o JoinTuples(val.value.items, 1)
        ELSE IF val.value.t = "tuple"
        THEN wire = val.prefix \o TupleBytes(val.value)
        ELSE Return(PyStr(wire)) = packs(val.prefix, PyTuple(<<val.value>>))

\* A list of three tuples was packed behind a prefix, the first tuple empty.
BatchLayoutWitness ==
    /\ val.op = "pack" /\ val.cut = 0
    /\ val.prefix # <<>>
    /\ val.value = PyList(<<PyTuple(<<>>), PyTuple(<<PyNone>>),
                            PyTuple(<<PyInt(FALSE, U64FromNat(241))>>)>>)
    /\ wire = val.prefix \o <<KIND_SEP, KIND_NULL, KIND_SEP, KIND_INTEGER, 241, 1>>

-----------------------------------------------------------------------------
(* The offset table entry point: decode_offsets.                           *)

\* Tables of every length up to MaxDeltas are drawn.
MaxDeltas == 3

\* Deltas on both sides of the one-byte form's limit.
TestDeltas == {0, 3, 7, 240, 241, 2288}

\* Bytes after the table.
Trailers == {<<>>, <<0>>, <<250>>}

\* varint(d[1]) || varint(d[2]) || ...
RECURSIVE Varints(_)
Varints(d) ==
    IF d = <<>> THEN <<>>
    ELSE writer_fini(write_int(writer_init(9), U64FromNat(Head(d)), 0)) \o Varints(Tail(d))

\* The input the caller hands to decode_offsets: the count, the deltas,
\* and the bytes that follow the table.
OffsetsInput(deltas, trail) == Varints(<<Len(deltas)>> \o deltas) \o trail

\* d[1] + ... + d[k]
RECURSIVE SumTo(_, _)
SumTo(d, k) == IF k = 0 THEN 0 ELSE d[k] + SumTo(d, k - 1)

TestTables == UNION {[1..n -> TestDeltas] : n \in 0..MaxDeltas}

InitOffsets ==
    /\ val \in {[op |-> "offsets", deltas |-> d, trail |-> t] :
                    d \in TestTables, t \in Trailers}
    /\ wire = OffsetsInput(val.deltas, val.trail)
    /\ pval = NoVal
    /\ pwire = <<>>
    /\ res = NoRes
    /\ writer = NoWriter

DecodeOffsets ==
    /\ val.op = "offsets"
    /\ res = NoRes
    /\ \E build \in Builds, store \in OobStores :
           res' = [op |-> "decode_offsets", uninit |-> build.uninit,
                   ret |-> py_decode_offsets(wire, build, store)]
    /\ UNCHANGED <<val, wire, pval, pwire, writer>>

NextOffsets == DecodeOffsets

SpecOffsets == InitOffsets /\ [][NextOffsets]_vars

\* The offsets and the byte count the table of the latest call stands for.
ExpectedOffsets ==
    Return(PyTuple(<<PyList([i \in 1..(Len(val.deltas) + 1) |->
                                PyInt(FALSE, U64FromNat(SumTo(val.deltas, i - 1)))]),
                     PyInt(FALSE, U64FromNat(Len(wire) - Len(val.trail)))>>))

(* C11: decode_offsets on varint(n), n varint deltas and trailing bytes    *)
(* returns the n + 1 cumulative sums, starting with 0, and the number of   *)
(* bytes the count and the deltas occupy, for every n.                     *)
OffsetsDecoded ==
    (val.op = "offsets" /\ res.op = "decode_offsets") => res.ret = ExpectedOffsets

\* The same, in the build where the unassigned local still holds the lead
\* byte.
OffsetsDecodedCh ==
    (val.op = "offsets" /\ res.op = "decode_offsets" /\ res.uninit = "ch")
        => res.ret = ExpectedOffsets

-----------------------------------------------------------------------------
(* The writer in a caller's hands: writer_init, then writer_putc,          *)
(* writer_puts, writer_ensure with its writer_putchar calls, writer_fini.  *)

\* A caller makes up to MaxCalls calls before writer_fini.
MaxCalls == 4

\* Capacities writer_init is called with: the least, the module's own 20,
\* and both sides of the capacity at which growth turns from doubling to
\* adding 512.
InitialSizes == {1, 2, 20, 511, 513}

\* Sizes writer_ensure is called with.
EnsureSizes == {0, 2, 600}

\* Strings writer_puts is called with.
PutStrings == {<<>>, <<3, 4, 5>>}

\* writer.wtr is the struct writer; room is the number of writer_putchar
\* calls the latest writer_ensure still covers, put the bytes handed to the
\* writer so far, fin whether writer_fini has taken the string.
InitWriter ==
    /\ val = NoVal
    /\ wire = <<>>
    /\ pval = NoVal
    /\ pwire = <<>>
    /\ res = NoRes
    /\ writer \in {[wtr |-> writer_init(n), room |-> 0, put |-> <<>>, calls |-> 0,
                     fin |-> FALSE] : n \in InitialSizes}

WriterPutc ==
    /\ ~writer.fin
    /\ writer.calls < MaxCalls
    /\ \E o \in {1, 255} :
           writer' = [writer EXCEPT !.wtr = writer_putc(@, o), !.room = 0,
                                    !.put = Append(@, o), !.calls = @ + 1]
    /\ UNCHANGED <<val, wire, pval, pwire, res>>

WriterPuts ==
    /\ ~writer.fin
    /\ writer.calls < MaxCalls
    /\ \E s \in PutStrings :
           writer' = [writer EXCEPT !.wtr = writer_puts(@, s), !.room = 0,
                                    !.put = @ \o s, !.calls = @ + 1]
    /\ UNCHANGED <<val, wire, pval, pwire, res>>

WriterEnsure ==
    /\ ~writer.fin
    /\ writer.calls < MaxCalls
    /\ \E n \in EnsureSizes :
           writer' = [writer EXCEPT !.wtr = writer_ensure(@, n), !.room = n,
                                    !.calls = @ + 1]
    /\ UNCHANGED <<val, wire, pval, pwire, res>>

\* writer_putchar, which callers use only within what writer_ensure covers.
WriterPutchar ==
    /\ ~writer.fin
    /\ writer.calls < MaxCalls
    /\ writer.room > 0
    /\ writer' = [writer EXCEPT !.wtr = writer_putchar(@, 2), !.room = @ - 1,
                                !.put = Append(@, 2), !.calls = @ + 1]
    /\ UNCHANGED <<val, wire, pval, pwire, res>>

WriterFini ==
    /\ ~writer.fin
    /\ res' = [op |-> "writer_fini", s |-> writer_fini(writer.wtr)]
    /\ writer' = [writer EXCEPT !.fin = TRUE]
    /\ UNCHANGED <<val, wire, pval, pwire>>

NextWriter == WriterPutc \/ WriterPuts \/ WriterEnsure \/ WriterPutchar \/ WriterFini

SpecWriter == InitWriter /\ [][NextWriter]_vars

Min(a, b) == IF a < b THEN a ELSE b

\* Capacity c becomes capacity d by zero or more growth steps, each to
\* min(2c, c + 512).
RECURSIVE GrownFrom(_, _)
GrownFrom(c, d) == c = d \/ (c < d /\ GrownFrom(Min(2 * c, c + 512), d))

\* The write position is below the capacity.
WriterInBounds == writer.wtr.pos < writer.wtr.size

\* writer_fini returned the bytes written, in order, pos of them.
WriterFiniExact ==
    (res.op = "writer_fini") =>
        (res.s = writer.put /\ Len(res.s) = writer.wtr.pos)

(* C14: from writer_init with a capacity of at least 1, after any          *)
(* successful writer_putc, writer_puts, and writer_ensure(n) followed by   *)
(* at most n writer_putchar calls, the write position is below the         *)
(* capacity; the capacity changes only by growth steps to                  *)
(* min(2 * capacity, capacity + 512); writer_fini returns exactly the      *)
(* bytes written, in order, as many as the write position.                 *)
WriterBounds ==
    /\ [](WriterInBounds /\ WriterFiniExact)
    /\ [][GrownFrom(writer.wtr.size, writer'.wtr.size)]_vars

\* A writer of capacity 513 grew by 512, took bytes from writer_puts and
\* writer_putchar, and writer_fini returned them.
WriterBoundsWitness ==
    /\ res.op = "writer_fini"
    /\ writer.wtr.size = 1025
    /\ writer.put = <<3, 4, 5, 2>>
    /\ res.s = <<3, 4, 5, 2>>

====
